---- MODULE Spec2Model ----
(***************************************************************************)
(* MaplatAffine: affine / similarity / no-shear estimation between image   *)
(* and map control points (compute.ts), forward and inverse application    *)
(* of the 6 parameters (transform.ts), the RMSE score (rmse.ts) and the    *)
(* CRS selection loop (find_best.ts).                                      *)
(*                                                                         *)
(* Numbers are exact: a number is <<n, d, e>> and stands for               *)
(* (n / d) * 10^(-e), d > 0.  The decimal exponent e lets the model hold   *)
(* values as small as the 1e-15 thresholds of the code with machine-sized  *)
(* n and d.  Square roots are kept symbolic (Sqrt).                        *)
(***************************************************************************)
EXTENDS Integers, Sequences, FiniteSets, TLC

(***************************************************************************)
(* Bounds of the model                                                     *)
(***************************************************************************)
\* longest point sequence drawn as an input
MaxLen == 3
\* longest control-point sequence handed to findBestCRS
MaxPts == 4
\* longest candidate list handed to findBestCRS
MaxCands == 2
\* decimal exponent of the small matrices and point clouds: 10^(-TinyDigits)
TinyDigits == 8

(***************************************************************************)
(* Program constants                                                       *)
(***************************************************************************)
\* transform.ts:41  Math.abs(det) < 1e-15
DetEpsDigits == 15
\* compute.ts:222   Math.abs(bigC) < 1e-15
BigCEpsDigits == 15

(***************************************************************************)
(* Exact arithmetic                                                        *)
(***************************************************************************)
Abs(i) == IF i < 0 THEN -i ELSE i

RECURSIVE GCD(_, _)
GCD(a, b) == IF b = 0 THEN a ELSE GCD(b, a % b)

RECURSIVE Pow10(_)
Pow10(k) == IF k = 0 THEN 1 ELSE 10 * Pow10(k - 1)

RECURSIVE DivPow10(_, _)
DivPow10(x, k) == IF k = 0 \/ x = 0 THEN x ELSE DivPow10(x \div 10, k - 1)

\* the number (n / d) * 10^(-e) in lowest terms; zero has one representation
Reduce(n, d, e, g) == <<n \div g, d \div g, e>>
Num(n, d, e) ==
    IF n = 0 THEN <<0, 1, 0>>
    ELSE IF d < 0 THEN Reduce(-n, -d, e, GCD(Abs(n), Abs(d)))
    ELSE Reduce(n, d, e, GCD(Abs(n), d))

I(i) == <<i, 1, 0>>
Zero == <<0, 1, 0>>
One == <<1, 1, 0>>
\* i * 10^(-e)
Dec(i, e) == Num(i, 1, e)

\* numerator and denominator of a at decimal exponent e >= a[3]
Align(a, e) ==
    IF a[1] = 0 \/ a[3] = e THEN <<a[1], a[2]>>
    ELSE <<a[1] * Pow10(e - a[3]), a[2]>>

MaxE(a, b) ==
    IF a[1] = 0 THEN b[3]
    ELSE IF b[1] = 0 THEN a[3]
    ELSE IF a[3] > b[3] THEN a[3] ELSE b[3]

\* x + y for two fractions <<numerator, denominator>> at decimal exponent e
AddFrac(x, y, e) == Num(x[1] * y[2] + y[1] * x[2], x[2] * y[2], e)
AddAt(a, b, e) == AddFrac(Align(a, e), Align(b, e), e)
Add(a, b) ==
    IF b[1] = 0 THEN a
    ELSE IF a[1] = 0 THEN b
    ELSE IF a[3] = b[3] THEN Num(a[1] * b[2] + b[1] * a[2], a[2] * b[2], a[3])
    ELSE AddAt(a, b, MaxE(a, b))

Neg(a) == <<-a[1], a[2], a[3]>>
Sub(a, b) == Add(a, Neg(b))
Mul(a, b) == Num(a[1] * b[1], a[2] * b[2], a[3] + b[3])
\* b is never zero where the code divides
Div(a, b) == Num(a[1] * b[2], a[2] * b[1], a[3] - b[3])
Sign(a) == IF a[1] > 0 THEN 1 ELSE IF a[1] < 0 THEN -1 ELSE 0
Lt(a, b) == Sign(Sub(a, b)) < 0
Le(a, b) == Sign(Sub(a, b)) <= 0
NumEq(a, b) == Sign(Sub(a, b)) = 0
NumAbs(a) == <<Abs(a[1]), a[2], a[3]>>
IsZero(a) == a[1] = 0

\* Math.abs(a) < 1e-k, decided without leaving the machine integers
AbsLtPow10(a, k) ==
    IF k >= a[3] THEN Abs(a[1]) <= DivPow10(a[2] - 1, k - a[3])
    ELSE DivPow10(Abs(a[1]), a[3] - k) < a[2]

\* Math.sqrt of a non-negative number, kept symbolic
Sqrt(q) == <<"sqrt", q>>
\* r1 < r2 for two symbolic roots: the square root is strictly increasing
RootLt(r1, r2) == Lt(r1[2], r2[2])
RootLe(r1, r2) == Le(r1[2], r2[2])

PointEq(p, q) == NumEq(p[1], q[1]) /\ NumEq(p[2], q[2])

\* <<F(1), ..., F(n)>> as a tuple
Tab(n, F(_)) == SubSeq([idx \in 1..n |-> F(idx)], 1, n)

\* outcomes of a call: a returned value or a thrown error
Ok(v) == <<"ok", v>>
Err(kind) == <<"error", kind>>
IsOk(o) == o[1] = "ok"
IsErr(o) == o[1] = "error"
None == <<"none">>

(***************************************************************************)
(* mathjs: transpose, multiply, inv on dense matrices (rows of numbers)    *)
(***************************************************************************)
Rows(M) == Len(M)
Cols(M) == Len(M[1])
Transpose(M) == Tab(Cols(M), LAMBDA j : Tab(Rows(M), LAMBDA i : M[i][j]))

RECURSIVE Dot(_, _, _)
Dot(u, v, k) == IF k = 0 THEN Zero ELSE Add(Dot(u, v, k - 1), Mul(u[k], v[k]))

\* P times the matrix whose transpose is Qt
MultiplyT(P, Qt) ==
    Tab(Rows(P), LAMBDA i : Tab(Len(Qt), LAMBDA j : Dot(P[i], Qt[j], Cols(P))))
Multiply(P, Q) == MultiplyT(P, Transpose(Q))

Identity(m) == Tab(m, LAMBDA i : Tab(m, LAMBDA j : IF i = j THEN One ELSE Zero))

LargerPivot(M, c, r, rest) ==
    IF Lt(NumAbs(M[r][c]), NumAbs(M[rest][c])) THEN rest ELSE r

\* the row r..m with the largest |M[row][c]|, the first one on ties
RECURSIVE PivotRow(_, _, _, _)
PivotRow(M, c, r, m) ==
    IF r = m THEN r
    ELSE LargerPivot(M, c, r, PivotRow(M, c, r + 1, m))

\* rows c and r of M exchanged
SwapRows(M, c, r) ==
    Tab(Len(M), LAMBDA i : IF i = c THEN M[r] ELSE IF i = r THEN M[c] ELSE M[i])

\* row - f * pivotRow
RowMinus(row, f, pivotRow) ==
    IF IsZero(f) THEN row
    ELSE Tab(Len(row), LAMBDA j : Sub(row[j], Mul(f, pivotRow[j])))

RowOver(row, piv) == Tab(Len(row), LAMBDA j : Div(row[j], piv))

\* column c of M cleared with its pivot row c
Eliminate(M, c) ==
    Tab(Len(M), LAMBDA i :
        IF i = c THEN RowOver(M[c], M[c][c])
        ELSE RowMinus(M[i], Div(M[i][c], M[c][c]), M[c]))

\* (M | I) and the right half of an augmented matrix
Augment(M) == Tab(Rows(M), LAMBDA i : M[i] \o Identity(Rows(M))[i])
RightHalf(M, m) == Tab(m, LAMBDA i : SubSeq(M[i], m + 1, 2 * m))

\* Gauss-Jordan elimination with partial pivoting on the augmented matrix; a
\* zero pivot is where math.inv throws
RECURSIVE GaussJordan(_, _, _)
GaussJordanPivot(M, c, m, r) ==
    IF IsZero(M[r][c]) THEN Err("singular-fit")
    ELSE GaussJordan(Eliminate(SwapRows(M, c, r), c), c + 1, m)

GaussJordan(M, c, m) ==
    IF c > m THEN Ok(RightHalf(M, m))
    ELSE GaussJordanPivot(M, c, m, PivotRow(M, c, c, m))

\* math.inv: throws "Cannot calculate inverse, determinant is zero"
Inv(M) == GaussJordan(Augment(M), 1, Rows(M))

(***************************************************************************)
(* transform.ts                                                            *)
(***************************************************************************)
\* X = A*x + B*y + C, Y = D*x + E*y + F
forwardAffine(params, imagePoint) ==
    LET A == params[1]
        B == params[2]
        C == params[3]
        D == params[4]
        E == params[5]
        F == params[6]
        x == imagePoint[1]
        y == imagePoint[2]
    IN  <<Add(Add(Mul(A, x), Mul(B, y)), C), Add(Add(Mul(D, x), Mul(E, y)), F)>>

Det(params) == Sub(Mul(params[1], params[5]), Mul(params[2], params[4]))

\* inverseAffine with the sign of D lost in the second row
inverseAffineLostSign(params, mapPoint) ==
    LET A == params[1]
        B == params[2]
        C == params[3]
        D == params[4]
        E == params[5]
        F == params[6]
        det == Det(params)
        Xc == Sub(mapPoint[1], C)
        Yf == Sub(mapPoint[2], F)
    IN  IF AbsLtPow10(det, DetEpsDigits) THEN Err("singular-transform")
        ELSE Ok(<<Div(Sub(Mul(E, Xc), Mul(B, Yf)), det),
                  Div(Add(Mul(D, Xc), Mul(A, Yf)), det)>>)

\* inverseAffine that only rejects a determinant of exactly zero
inverseAffineExactZero(params, mapPoint) ==
    LET A == params[1]
        B == params[2]
        C == params[3]
        D == params[4]
        E == params[5]
        F == params[6]
        det == Det(params)
        Xc == Sub(mapPoint[1], C)
        Yf == Sub(mapPoint[2], F)
    IN  IF IsZero(det) THEN Err("singular-transform")
        ELSE Ok(<<Div(Sub(Mul(E, Xc), Mul(B, Yf)), det),
                  Div(Add(Mul(Neg(D), Xc), Mul(A, Yf)), det)>>)

inverseAffine(params, mapPoint) ==
    LET A == params[1]
        B == params[2]
        C == params[3]
        D == params[4]
        E == params[5]
        F == params[6]
        det == Det(params)
        Xc == Sub(mapPoint[1], C)
        Yf == Sub(mapPoint[2], F)
    IN  IF AbsLtPow10(det, DetEpsDigits) THEN Err("singular-transform")
        ELSE Ok(<<Div(Sub(Mul(E, Xc), Mul(B, Yf)), det),
                  Div(Add(Mul(Neg(D), Xc), Mul(A, Yf)), det)>>)

(***************************************************************************)
(* rmse.ts                                                                 *)
(***************************************************************************)
\* the summand without the squares
SqDiffLinear(p, q) == Add(Sub(p[1], q[1]), Sub(p[2], q[2]))

SqDiff(p, q) ==
    LET dx == Sub(p[1], q[1])
        dy == Sub(p[2], q[2])
    IN  Add(Mul(dx, dx), Mul(dy, dy))

\* the loop of computeRMSE over i = 1..k
RECURSIVE SumSqDiff(_, _, _)
SumSqDiff(obs, pred, k) ==
    IF k = 0 THEN Zero ELSE Add(SumSqDiff(obs, pred, k - 1), SqDiff(obs[k], pred[k]))

computeRMSE(observedPoints, predictedPoints) ==
    LET n == Len(observedPoints)
    IN  IF n = 0 \/ n # Len(predictedPoints) THEN Err("length-mismatch")
        ELSE Ok(Sqrt(Div(SumSqDiff(observedPoints, predictedPoints, n), I(n))))

(***************************************************************************)
(* compute.ts                                                              *)
(***************************************************************************)
\* the 2n x 6 design matrix and the 2n x 1 observation vector of computeAffine6
DesignAffine(imgPts) ==
    Tab(2 * Len(imgPts), LAMBDA r :
        LET p == imgPts[(r + 1) \div 2]
        IN  IF r % 2 = 1 THEN <<p[1], p[2], One, Zero, Zero, Zero>>
            ELSE <<Zero, Zero, Zero, p[1], p[2], One>>)

Observations(mapPts) ==
    Tab(2 * Len(mapPts), LAMBDA r :
        LET p == mapPts[(r + 1) \div 2]
        IN  IF r % 2 = 1 THEN <<p[1]>> ELSE <<p[2]>>)

\* p = (M^T M)^(-1) * (M^T V)
SolveWith(invMtM, MtV) ==
    IF IsErr(invMtM) THEN invMtM ELSE Ok(Multiply(invMtM[2], MtV))
NormalEquationsT(Mt, M, V) == SolveWith(Inv(Multiply(Mt, M)), Multiply(Mt, V))
NormalEquations(M, V) == NormalEquationsT(Transpose(M), M, V)

\* computeAffine6 reading D and E from each other's row of the solution
Affine6SwappedOf(p) ==
    IF IsErr(p) THEN p
    ELSE Ok(<<p[2][1][1], p[2][2][1], p[2][3][1], p[2][5][1], p[2][4][1], p[2][6][1]>>)
computeAffine6Swapped(imgPts, mapPts) ==
    Affine6SwappedOf(NormalEquations(DesignAffine(imgPts), Observations(mapPts)))

\* a failed inversion turned into all-zero params
Affine6OfBestEffort(p) ==
    IF IsErr(p) THEN Ok(<<Zero, Zero, Zero, Zero, Zero, Zero>>)
    ELSE Ok(<<p[2][1][1], p[2][2][1], p[2][3][1], p[2][4][1], p[2][5][1], p[2][6][1]>>)

\* [A, B, C, D, E, F] read from the 6 x 1 solution
Affine6Of(p) ==
    IF IsErr(p) THEN p
    ELSE Ok(<<p[2][1][1], p[2][2][1], p[2][3][1], p[2][4][1], p[2][5][1], p[2][6][1]>>)

computeAffine6(imgPts, mapPts) ==
    Affine6Of(NormalEquations(DesignAffine(imgPts), Observations(mapPts)))

RECURSIVE SumCoord(_, _, _)
SumCoord(pts, c, k) == IF k = 0 THEN Zero ELSE Add(SumCoord(pts, c, k - 1), pts[k][c])

\* the Procrustes sums over the centred points, i = 1..k
RECURSIVE BigA(_, _, _, _, _)
BigA(imgPts, mapPts, ci, cm, k) ==
    IF k = 0 THEN Zero
    ELSE LET ix == Sub(imgPts[k][1], ci[1])
             iy == Sub(imgPts[k][2], ci[2])
             mX == Sub(mapPts[k][1], cm[1])
             mY == Sub(mapPts[k][2], cm[2])
         IN  Add(BigA(imgPts, mapPts, ci, cm, k - 1), Add(Mul(ix, mX), Mul(iy, mY)))

RECURSIVE BigB(_, _, _, _, _)
BigB(imgPts, mapPts, ci, cm, k) ==
    IF k = 0 THEN Zero
    ELSE LET ix == Sub(imgPts[k][1], ci[1])
             iy == Sub(imgPts[k][2], ci[2])
             mX == Sub(mapPts[k][1], cm[1])
             mY == Sub(mapPts[k][2], cm[2])
         IN  Add(BigB(imgPts, mapPts, ci, cm, k - 1), Sub(Mul(ix, mY), Mul(iy, mX)))

RECURSIVE BigC(_, _, _)
BigC(imgPts, ci, k) ==
    IF k = 0 THEN Zero
    ELSE LET ix == Sub(imgPts[k][1], ci[1])
             iy == Sub(imgPts[k][2], ci[2])
         IN  Add(BigC(imgPts, ci, k - 1), Add(Mul(ix, ix), Mul(iy, iy)))

Centroid(pts) ==
    <<Div(SumCoord(pts, 1, Len(pts)), I(Len(pts))),
      Div(SumCoord(pts, 2, Len(pts)), I(Len(pts)))>>

\* steps 4 and 5 of computeSimilarCore: the translation and the matrix
SimilarMatrix(sCos, sSin, ci, cm) ==
    Ok(<<sCos, Neg(sSin), Sub(cm[1], Sub(Mul(sCos, ci[1]), Mul(sSin, ci[2]))),
         sSin, sCos, Sub(cm[2], Add(Mul(sSin, ci[1]), Mul(sCos, ci[2])))>>)

\* theta = atan2(bigB, bigA), s = sqrt(bigA^2 + bigB^2) / bigC, so that
\* s*cos(theta) = bigA / bigC and s*sin(theta) = bigB / bigC (both 0 when
\* bigA = bigB = 0, where atan2 gives 0 and s = 0).
SimilarFromSums(bigA, bigB, bigC, ci, cm) ==
    IF AbsLtPow10(bigC, BigCEpsDigits) THEN Err("degenerate-geometry")
    ELSE SimilarMatrix(Div(bigA, bigC), Div(bigB, bigC), ci, cm)

SimilarCentred(imgPts, mapPts, ci, cm) ==
    SimilarFromSums(BigA(imgPts, mapPts, ci, cm, Len(imgPts)),
                    BigB(imgPts, mapPts, ci, cm, Len(imgPts)),
                    BigC(imgPts, ci, Len(imgPts)), ci, cm)

computeSimilarCore(imgPts, mapPts) ==
    SimilarCentred(imgPts, mapPts, Centroid(imgPts), Centroid(mapPts))

\* a copy of the points with y negated
flipY(imgPts) == Tab(Len(imgPts), LAMBDA i : <<imgPts[i][1], Neg(imgPts[i][2])>>)

\* convertFlipParam negating the second row instead of the y column
convertFlipParamRow(paramFlip) ==
    <<paramFlip[1], paramFlip[2], paramFlip[3],
      Neg(paramFlip[4]), Neg(paramFlip[5]), paramFlip[6]>>

convertFlipParam(paramFlip) ==
    <<paramFlip[1], Neg(paramFlip[2]), paramFlip[3],
      paramFlip[4], Neg(paramFlip[5]), paramFlip[6]>>

RECURSIVE SumRes(_, _, _, _)
SumRes(affine, imgPts, mapPts, k) ==
    IF k = 0 THEN Zero
    ELSE LET x == imgPts[k][1]
             y == imgPts[k][2]
             Xp == Add(Add(Mul(affine[1], x), Mul(affine[2], y)), affine[3])
             Yp == Add(Add(Mul(affine[4], x), Mul(affine[5], y)), affine[6])
             dx == Sub(mapPts[k][1], Xp)
             dy == Sub(mapPts[k][2], Yp)
         IN  Add(SumRes(affine, imgPts, mapPts, k - 1), Add(Mul(dx, dx), Mul(dy, dy)))

sumOfSquaredResiduals(affine, imgPts, mapPts) == SumRes(affine, imgPts, mapPts, Len(imgPts))

\* the comparison of the two residuals made strict: a tie goes to paramB
AutoSelectStrict(paramA, paramB, imgPts, mapPts) ==
    IF Lt(sumOfSquaredResiduals(paramA, imgPts, mapPts),
          sumOfSquaredResiduals(paramB, imgPts, mapPts))
    THEN paramA ELSE paramB

\* 'auto' that never takes the flipped candidate
AutoSelectNoFlip(paramA, paramB, imgPts, mapPts) == paramA

\* errA <= errB ? paramA : paramB
AutoSelect(paramA, paramB, imgPts, mapPts) ==
    IF Le(sumOfSquaredResiduals(paramA, imgPts, mapPts),
          sumOfSquaredResiduals(paramB, imgPts, mapPts))
    THEN paramA ELSE paramB

\* the switch with the 'same' and 'opposite' cases exchanged
OrientationSwitchExchanged(paramNoFlip, paramFlip, imgPts, mapPts, yAxis) ==
    IF IsErr(paramNoFlip) THEN paramNoFlip
    ELSE IF IsErr(paramFlip) THEN paramFlip
    ELSE CASE yAxis = "same" -> Ok(convertFlipParam(paramFlip[2]))
           [] yAxis = "opposite" -> paramNoFlip
           [] OTHER -> Ok(AutoSelect(paramNoFlip[2], convertFlipParam(paramFlip[2]),
                                     imgPts, mapPts))

\* switch (yAxisMode) on the two fitted candidates
OrientationSwitch(paramNoFlip, paramFlip, imgPts, mapPts, yAxis) ==
    IF IsErr(paramNoFlip) THEN paramNoFlip
    ELSE IF IsErr(paramFlip) THEN paramFlip
    ELSE CASE yAxis = "same" -> paramNoFlip
           [] yAxis = "opposite" -> Ok(convertFlipParam(paramFlip[2]))
           [] OTHER -> Ok(AutoSelect(paramNoFlip[2], convertFlipParam(paramFlip[2]),
                                     imgPts, mapPts))

computeSimilarAsAffine(imgPts, mapPts, yAxis) ==
    OrientationSwitch(computeSimilarCore(imgPts, mapPts),
                      computeSimilarCore(flipY(imgPts), mapPts), imgPts, mapPts, yAxis)

\* the 2n x 3 design matrix of computeNoShearCore
DesignNoShear(imgPts) ==
    Tab(2 * Len(imgPts), LAMBDA r :
        LET p == imgPts[(r + 1) \div 2]
        IN  IF r % 2 = 1 THEN <<p[1], One, Zero>> ELSE <<p[2], Zero, One>>)

\* [A_, 0, C_, 0, A_, F_] read from the 3 x 1 solution
NoShearOf(p) ==
    IF IsErr(p) THEN p
    ELSE Ok(<<p[2][1][1], Zero, p[2][2][1], Zero, p[2][1][1], p[2][3][1]>>)

computeNoShearCore(imgPts, mapPts) ==
    NoShearOf(NormalEquations(DesignNoShear(imgPts), Observations(mapPts)))

computeNoShearAsAffine(imgPts, mapPts, yAxis) ==
    OrientationSwitch(computeNoShearCore(imgPts, mapPts),
                      computeNoShearCore(flipY(imgPts), mapPts), imgPts, mapPts, yAxis)

\* computeTransformParams whose affine case falls through to the similar case
computeTransformParamsFallThrough(imgPts, mapPts, transformMode, yAxis) ==
    LET n == Len(imgPts)
    IN  IF n < 2 THEN Err("insufficient-points")
        ELSE IF Len(mapPts) # n THEN Err("length-mismatch")
        ELSE CASE transformMode \in {"affine", "similar"} ->
                    computeSimilarAsAffine(imgPts, mapPts, yAxis)
               [] transformMode = "noshear" -> computeNoShearAsAffine(imgPts, mapPts, yAxis)
               [] OTHER -> Err("unknown-mode")

\* computeTransformParams that asks for one point, and for three points
computeTransformParamsOne(imgPts, mapPts, transformMode, yAxis) ==
    LET n == Len(imgPts)
    IN  IF n < 1 THEN Err("insufficient-points")
        ELSE IF Len(mapPts) # n THEN Err("length-mismatch")
        ELSE CASE transformMode = "affine" -> computeAffine6(imgPts, mapPts)
               [] transformMode = "similar" -> computeSimilarAsAffine(imgPts, mapPts, yAxis)
               [] transformMode = "noshear" -> computeNoShearAsAffine(imgPts, mapPts, yAxis)
               [] OTHER -> Err("unknown-mode")

computeTransformParamsThree(imgPts, mapPts, transformMode, yAxis) ==
    LET n == Len(imgPts)
    IN  IF n < 3 THEN Err("insufficient-points")
        ELSE IF Len(mapPts) # n THEN Err("length-mismatch")
        ELSE CASE transformMode = "affine" -> computeAffine6(imgPts, mapPts)
               [] transformMode = "similar" -> computeSimilarAsAffine(imgPts, mapPts, yAxis)
               [] transformMode = "noshear" -> computeNoShearAsAffine(imgPts, mapPts, yAxis)
               [] OTHER -> Err("unknown-mode")

\* computeTransformParams with its two entry checks in the other order
computeTransformParamsMismatchFirst(imgPts, mapPts, transformMode, yAxis) ==
    LET n == Len(imgPts)
    IN  IF Len(mapPts) # n THEN Err("length-mismatch")
        ELSE IF n < 2 THEN Err("insufficient-points")
        ELSE CASE transformMode = "affine" -> computeAffine6(imgPts, mapPts)
               [] transformMode = "similar" -> computeSimilarAsAffine(imgPts, mapPts, yAxis)
               [] transformMode = "noshear" -> computeNoShearAsAffine(imgPts, mapPts, yAxis)
               [] OTHER -> Err("unknown-mode")

computeTransformParams(imgPts, mapPts, transformMode, yAxis) ==
    LET n == Len(imgPts)
    IN  IF n < 2 THEN Err("insufficient-points")
        ELSE IF Len(mapPts) # n THEN Err("length-mismatch")
        ELSE CASE transformMode = "affine" -> computeAffine6(imgPts, mapPts)
               [] transformMode = "similar" -> computeSimilarAsAffine(imgPts, mapPts, yAxis)
               [] transformMode = "noshear" -> computeNoShearAsAffine(imgPts, mapPts, yAxis)
               [] OTHER -> Err("unknown-mode")

\* the internal fits a call of computeTransformParams runs, in call order
EstimatorCalls(imgPts, mapPts, transformMode, yAxis) ==
    IF Len(imgPts) < 2 \/ Len(mapPts) # Len(imgPts) THEN <<>>
    ELSE CASE transformMode = "affine" -> <<"computeAffine6">>
           [] transformMode = "similar" ->
                IF IsErr(computeSimilarCore(imgPts, mapPts)) THEN <<"computeSimilarCore">>
                ELSE <<"computeSimilarCore", "flipY", "computeSimilarCore">>
           [] transformMode = "noshear" ->
                IF IsErr(computeNoShearCore(imgPts, mapPts)) THEN <<"computeNoShearCore">>
                ELSE <<"computeNoShearCore", "flipY", "computeNoShearCore">>
           [] OTHER -> <<>>

\* flipY negating the y of the points it was given
flipYInPlace(imgPts) == flipY(imgPts)

\* the array flipY was given, after the call: map() fills a new array with
\* new pairs and writes to neither the argument nor its points
flipYArgument(imgPts) == imgPts

\* the imagePoints array after computeTransformParams returned or threw: the
\* fits only read it, flipY is the one callee that derives changed points
ImagePointsAfter(imgPts, mapPts, transformMode, yAxis) ==
    IF \E i \in 1..Len(EstimatorCalls(imgPts, mapPts, transformMode, yAxis)) :
           EstimatorCalls(imgPts, mapPts, transformMode, yAxis)[i] = "flipY"
    THEN flipYArgument(imgPts)
    ELSE imgPts

(***************************************************************************)
(* find_best.ts: the projection engine and the definition list             *)
(***************************************************************************)
\* identifiers proj4 defines on its own
Proj4Builtin == {"EPSG:4326", "EPSG:3857"}
\* keys of proj4-list
Proj4List == {"EPSG:4326", "EPSG:3857", "EPSG:2448", "EPSG:3099"}
\* identifiers a caller may pass as candidates; "EPSG:0" is in no list
CrsIds == {"EPSG:3857", "EPSG:2448", "EPSG:3099", "EPSG:0"}

\* proj4(crs).forward(point): the engine is a black box to the code; each
\* identifier stands for a fixed map of the geographic plane.  "EPSG:3857"
\* stretches the second axis non-linearly, the two plane-rectangular zones
\* are a scaling and a sheared scaling.
Project(crs, p) ==
    CASE crs = "EPSG:3857" -> <<p[1], Add(p[2], Mul(p[2], p[2]))>>
      [] crs = "EPSG:2448" -> <<Add(Mul(I(2), p[1]), One), Mul(I(2), p[2])>>
      [] crs = "EPSG:3099" -> <<Add(Mul(I(2), p[1]), p[2]), Sub(p[2], One)>>
      [] OTHER -> p

ProjectAll(crs, pts) == Tab(Len(pts), LAMBDA i : Project(crs, pts[i]))
ForwardAll(params, pts) == Tab(Len(pts), LAMBDA i : forwardAffine(params, pts[i]))

\* steps 3-5 of the loop body for one candidate: fit, predict, score
ScoreFit(fit, mapPts, imgPts) ==
    IF IsErr(fit) THEN fit ELSE computeRMSE(mapPts, ForwardAll(fit[2], imgPts))
ScoreProjected(mapPts, imgPts, transformMode, yAxis) ==
    ScoreFit(computeTransformParams(imgPts, mapPts, transformMode, yAxis), mapPts, imgPts)
ScoreCandidate(crs, lnglatPts, imgPts, transformMode, yAxis) ==
    ScoreProjected(ProjectAll(crs, lnglatPts), imgPts, transformMode, yAxis)

\* rmse[crs] = value on an object whose keys keep insertion order
RECURSIVE HasKey(_, _, _)
HasKey(obj, key, i) == i > 0 /\ (obj[i][1] = key \/ HasKey(obj, key, i - 1))

SetKey(obj, key, value) ==
    IF HasKey(obj, key, Len(obj))
    THEN Tab(Len(obj), LAMBDA i : IF obj[i][1] = key THEN <<key, value>> ELSE obj[i])
    ELSE Append(obj, <<key, value>>)

\* the reducer that keeps its accumulator
ReduceStepKeep(a, b) == a
\* the reducer with > and with <= in place of <
ReduceStepGreater(a, b) == IF RootLt(b[2], a[2]) THEN a ELSE b
ReduceStepLe(a, b) == IF RootLe(a[2], b[2]) THEN a ELSE b
\* (a, b) => (rmse[a] < rmse[b] ? a : b) on two entries of rmse
ReduceStep(a, b) == IF RootLt(a[2], b[2]) THEN a ELSE b

\* Object.keys(rmse).reduce((a, b) => (rmse[a] < rmse[b] ? a : b)) up to key i
RECURSIVE ReduceKeys(_, _)
ReduceKeys(obj, i) ==
    IF i = 1 THEN obj[1]
    ELSE ReduceStep(ReduceKeys(obj, i - 1), obj[i])

\* reduce given an initial value, which an empty object returns
SelectBestSeeded(obj) ==
    IF Len(obj) = 0 THEN Ok("") ELSE Ok(ReduceKeys(obj, Len(obj))[1])

SelectBest(obj) ==
    IF Len(obj) = 0 THEN Err("TypeError") ELSE Ok(ReduceKeys(obj, Len(obj))[1])

(***************************************************************************)
(* Inputs                                                                  *)
(***************************************************************************)
Modes == {"affine", "similar", "noshear", "unknown"}
YAxisModes == {"same", "opposite", "auto"}

P2(x, y) == <<I(x), I(y)>>
\* x and y scaled by 10^(-e)
PScaled(x, y, e) == <<Dec(x, e), Dec(y, e)>>

SeqsUpTo(S, n) == UNION {[1..m -> S] : m \in 0..n}
Prefix(seq, n) == Tab(n, LAMBDA i : seq[i])

(***************************************************************************)
(* State                                                                   *)
(***************************************************************************)
VARIABLES
    pc,            \* position of the running call
    params,        \* AffineParams handed to forwardAffine / inverseAffine
    point,         \* the point handed to forwardAffine / inverseAffine
    imagePoints,   \* image-side control points
    mapPoints,     \* map-side control points of a direct estimator / RMSE call
    lnglatPoints,  \* geographic control points of findBestCRS
    crses,         \* candidate list of the running findBestCRS call
    mode,          \* TransformMode
    yAxisMode,     \* YAxisMode
    defs,          \* identifiers defined in the projection engine
    k,             \* index of the next candidate of the loop
    rmse,          \* the rmse object: <<key, value>> in key order
    outcome,       \* what the last call returned or threw
    trace          \* calls made by the running call, in order

vars == <<pc, params, point, imagePoints, mapPoints, lnglatPoints, crses, mode,
          yAxisMode, defs, k, rmse, outcome, trace>>

NoParams == <<Zero, Zero, Zero, Zero, Zero, Zero>>

\* the part of the state an AffineOp run leaves at its defaults
EstimatorIdle ==
    /\ imagePoints = <<>>
    /\ mapPoints = <<>>
    /\ lnglatPoints = <<>>
    /\ crses = <<>>
    /\ mode = "affine"
    /\ yAxisMode = "auto"
    /\ defs = Proj4Builtin
    /\ k = 0
    /\ rmse = <<>>
    /\ trace = <<>>

(***************************************************************************)
(* AffineOp: forwardAffine and inverseAffine on drawn params and points    *)
(***************************************************************************)
Coefs == {-1, 0, 3}
Offsets == {0, 1}
Coords == {-1, 0, 2}
\* the matrices are drawn at unit scale and at 10^(-TinyDigits)
Scales == {0, TinyDigits}

InitAffineOp ==
    /\ pc = "idle"
    /\ \E a \in Coefs, b \in Coefs, d \in Coefs, e \in Coefs,
          c \in Offsets, f \in Offsets, s \in Scales :
          params = <<Dec(a, s), Dec(b, s), Dec(c, s), Dec(d, s), Dec(e, s), Dec(f, s)>>
    /\ \E x \in Coords, y \in Coords : point = P2(x, y)
    /\ outcome = None
    /\ EstimatorIdle

\* forwardAffine(params, point)
ForwardAffineCall ==
    /\ pc = "idle"
    /\ outcome' = Ok(forwardAffine(params, point))
    /\ pc' = "forwarded"
    /\ trace' = Append(trace, "forwardAffine")
    /\ UNCHANGED <<params, point, imagePoints, mapPoints, lnglatPoints, crses, mode,
                   yAxisMode, defs, k, rmse>>

\* inverseAffine(params, point)
InverseAffineCall ==
    /\ pc = "idle"
    /\ outcome' = inverseAffine(params, point)
    /\ pc' = "inverted"
    /\ trace' = Append(trace, "inverseAffine")
    /\ UNCHANGED <<params, point, imagePoints, mapPoints, lnglatPoints, crses, mode,
                   yAxisMode, defs, k, rmse>>

\* inverseAffine(params, forwardAffine(params, point))
RoundTripCall ==
    /\ pc = "forwarded"
    /\ outcome' = inverseAffine(params, outcome[2])
    /\ pc' = "roundtrip"
    /\ trace' = Append(trace, "inverseAffine")
    /\ UNCHANGED <<params, point, imagePoints, mapPoints, lnglatPoints, crses, mode,
                   yAxisMode, defs, k, rmse>>

NextAffineOp == ForwardAffineCall \/ InverseAffineCall \/ RoundTripCall

SpecAffineOp == InitAffineOp /\ [][NextAffineOp]_vars

(***************************************************************************)
(* Estimator: computeTransformParams on drawn control points               *)
(***************************************************************************)
ImageGrid == {<<0, 0>>, <<1, 0>>, <<2, 0>>, <<0, 1>>}

\* known parameter sets the map points are generated from: a rotation by a
\* quarter turn, a mirrored similarity, a scaling, a mirrored scaling and a
\* general affine map
Generators ==
    { <<I(0), I(-1), I(1), I(1), I(0), I(2)>>,
      <<I(1), I(1), I(0), I(1), I(-1), I(3)>>,
      <<I(2), I(0), I(1), I(0), I(2), I(-1)>>,
      <<I(2), I(0), I(1), I(0), I(-2), I(0)>>,
      <<I(1), I(2), I(0), I(3), I(1), I(1)>> }

\* map points off the generated ones: the first X moved by one
Bumps == {"none", "first"}
Bump(pts, bump) ==
    IF bump = "none" \/ Len(pts) = 0 THEN pts
    ELSE Tab(Len(pts), LAMBDA i :
             IF i = 1 THEN <<Add(pts[1][1], One), pts[1][2]>> ELSE pts[i])

ScalePoints(seq, e) == Tab(Len(seq), LAMBDA i : PScaled(seq[i][1], seq[i][2], e))

\* The image points are every sequence over ImageGrid up to MaxLen, at unit
\* scale in every mode and at 10^(-TinyDigits) in similar mode, whose sums
\* keep one decimal exponent.
InitEstimator ==
    /\ pc = "idle"
    /\ params = NoParams
    /\ point = P2(0, 0)
    /\ mode \in Modes
    /\ yAxisMode \in YAxisModes
    /\ \E img \in SeqsUpTo(ImageGrid, MaxLen), g \in Generators, b \in Bumps,
          s \in Scales :
          /\ s = 0 \/ mode = "similar"
          /\ imagePoints = ScalePoints(img, s)
          /\ mapPoints = Bump(ForwardAll(g, ScalePoints(img, 0)), b)
    /\ lnglatPoints = <<>>
    /\ crses = <<>>
    /\ defs = Proj4Builtin
    /\ k = 0
    /\ rmse = <<>>
    /\ outcome = None
    /\ trace = <<>>

\* computeTransformParams(imagePoints, mapPoints, mode, yAxisMode)
ComputeTransformParamsCall ==
    /\ pc = "idle"
    /\ outcome' = computeTransformParams(imagePoints, mapPoints, mode, yAxisMode)
    /\ trace' = trace \o EstimatorCalls(imagePoints, mapPoints, mode, yAxisMode)
    /\ imagePoints' = ImagePointsAfter(imagePoints, mapPoints, mode, yAxisMode)
    /\ pc' = "done"
    /\ UNCHANGED <<params, point, mapPoints, lnglatPoints, crses, mode,
                   yAxisMode, defs, k, rmse>>

\* computeRMSE(mapPoints, imagePoints.map(p => forwardAffine(result, p)))
ResidualRMSECall ==
    /\ pc = "done"
    /\ IsOk(outcome)
    /\ rmse' = <<<<"residual",
                   computeRMSE(mapPoints, ForwardAll(outcome[2], imagePoints))>>>>
    /\ pc' = "scored"
    /\ UNCHANGED <<params, point, imagePoints, mapPoints, lnglatPoints, crses, mode,
                   yAxisMode, defs, k, outcome, trace>>

NextEstimator == ComputeTransformParamsCall \/ ResidualRMSECall

SpecEstimator == InitEstimator /\ [][NextEstimator]_vars

(***************************************************************************)
(* Scorer: the three public operations on drawn point sequences, and the   *)
(* candidate loop of findBestCRS one iteration at a time                   *)
(***************************************************************************)
\* local points by index: a lattice, a straight line, one repeated point
ImageShapes == {"lattice", "line", "spot"}
ImagePoint(shape, i) ==
    CASE shape = "lattice" -> P2(i % 3, i \div 3)
      [] shape = "line" -> P2(i, 0)
      [] OTHER -> P2(1, 1)

\* geographic points paired with the lattice: a similarity image of it, and
\* a set no affine map reaches
GeoShapes == {"similar", "warped"}
GeoPoint(shape, i) ==
    CASE shape = "similar" -> P2(i \div 3, -(i % 3))
      [] OTHER -> P2(i % 2, (i * i) % 5)

ImageSeq(shape, n) == Tab(n, LAMBDA i : ImagePoint(shape, i))
GeoSeq(shape, n) == Tab(n, LAMBDA i : GeoPoint(shape, i))

\* Every pair of lengths 0..MaxPts is drawn; mapPoints is the second sequence
\* of a direct computeRMSE / computeTransformParams call.
InitScorer ==
    /\ pc = "idle"
    /\ params = NoParams
    /\ point = P2(0, 0)
    /\ mode \in Modes
    /\ yAxisMode \in YAxisModes
    /\ \E si \in ImageShapes, n \in 0..MaxPts : imagePoints = ImageSeq(si, n)
    /\ \E sg \in GeoShapes, n \in 0..MaxPts : lnglatPoints = GeoSeq(sg, n)
    /\ mapPoints = lnglatPoints
    /\ crses = <<>>
    /\ defs = Proj4Builtin
    /\ k = 0
    /\ rmse = <<>>
    /\ outcome = None
    /\ trace = <<>>

\* computeRMSE(mapPoints, imagePoints)
ComputeRMSECall ==
    /\ pc = "idle"
    /\ outcome' = computeRMSE(mapPoints, imagePoints)
    /\ pc' = "measured"
    /\ UNCHANGED <<params, point, imagePoints, mapPoints, lnglatPoints, crses, mode,
                   yAxisMode, defs, k, rmse, trace>>

\* computeRMSE(imagePoints, imagePoints): one sequence as both arguments
ComputeRMSESelfCall ==
    /\ pc = "idle"
    /\ outcome' = computeRMSE(imagePoints, imagePoints)
    /\ pc' = "self-measured"
    /\ UNCHANGED <<params, point, imagePoints, mapPoints, lnglatPoints, crses, mode,
                   yAxisMode, defs, k, rmse, trace>>

\* findBestCRS(lnglatPoints, imagePoints, cs, mode, yAxisMode) up to the loop
FindBestCRSCall ==
    /\ pc = "idle"
    /\ \E cs \in SeqsUpTo(CrsIds, MaxCands) : crses' = cs
    /\ IF Len(lnglatPoints) # Len(imagePoints)
       THEN /\ outcome' = Err("length-mismatch")
            /\ pc' = "threw"
            /\ k' = k
       ELSE /\ outcome' = outcome
            /\ pc' = "loop"
            /\ k' = 1
    /\ UNCHANGED <<params, point, imagePoints, mapPoints, lnglatPoints, mode,
                   yAxisMode, defs, rmse, trace>>

\* the loop body that takes back the registration of a candidate that fails
IterateWithRollback(crs, score) ==
    /\ defs' = IF IsErr(score) THEN defs ELSE defs \cup {crs}
    /\ trace' = Append(trace, <<crs, score, crs \notin defs>>)
    /\ IF IsErr(score)
       THEN /\ outcome' = score
            /\ pc' = "threw"
            /\ UNCHANGED <<k, rmse>>
       ELSE /\ rmse' = SetKey(rmse, crs, score[2])
            /\ k' = k + 1
            /\ UNCHANGED <<pc, outcome>>

\* the loop body with proj4.defs(code, def) called on every candidate
IterateWithAlwaysDefine(crs, score) ==
    /\ defs' = defs \cup {crs}
    /\ trace' = Append(trace, <<crs, score, TRUE>>)
    /\ IF IsErr(score)
       THEN /\ outcome' = score
            /\ pc' = "threw"
            /\ UNCHANGED <<k, rmse>>
       ELSE /\ rmse' = SetKey(rmse, crs, score[2])
            /\ k' = k + 1
            /\ UNCHANGED <<pc, outcome>>

\* the loop body for crs: registration when proj4.defs(crs) is empty, then
\* projection, fit and score; the event logged is <<crs, score, registered>>
IterateWith(crs, score) ==
    /\ defs' = defs \cup {crs}
    /\ trace' = Append(trace, <<crs, score, crs \notin defs>>)
    /\ IF IsErr(score)
       THEN /\ outcome' = score
            /\ pc' = "threw"
            /\ UNCHANGED <<k, rmse>>
       ELSE /\ rmse' = SetKey(rmse, crs, score[2])
            /\ k' = k + 1
            /\ UNCHANGED <<pc, outcome>>

\* the loop body that swallows a failed candidate and goes on
FindBestCRSIterateSkipping ==
    /\ pc = "loop"
    /\ k <= Len(crses)
    /\ IF crses[k] \notin defs /\ crses[k] \notin Proj4List
       THEN /\ outcome' = Err("TypeError")
            /\ pc' = "threw"
            /\ UNCHANGED <<defs, k, rmse, trace>>
       ELSE /\ defs' = defs \cup {crses[k]}
            /\ trace' = Append(trace, <<crses[k],
                   ScoreCandidate(crses[k], lnglatPoints, imagePoints, mode, yAxisMode),
                   crses[k] \notin defs>>)
            /\ k' = k + 1
            /\ rmse' = IF IsErr(trace'[Len(trace')][2]) THEN rmse
                       ELSE SetKey(rmse, crses[k], trace'[Len(trace')][2][2])
            /\ UNCHANGED <<pc, outcome>>
    /\ UNCHANGED <<params, point, imagePoints, mapPoints, lnglatPoints, crses, mode,
                   yAxisMode>>

\* one iteration of for (const crs of crses)
FindBestCRSIterate ==
    /\ pc = "loop"
    /\ k <= Len(crses)
    /\ IF crses[k] \notin defs /\ crses[k] \notin Proj4List
       THEN /\ outcome' = Err("TypeError")
            /\ pc' = "threw"
            /\ UNCHANGED <<defs, k, rmse, trace, imagePoints>>
       ELSE /\ IterateWith(crses[k],
                   ScoreCandidate(crses[k], lnglatPoints, imagePoints, mode, yAxisMode))
            /\ imagePoints' = ImagePointsAfter(imagePoints,
                                  ProjectAll(crses[k], lnglatPoints), mode, yAxisMode)
    /\ UNCHANGED <<params, point, mapPoints, lnglatPoints, crses, mode, yAxisMode>>

\* return Object.keys(rmse).reduce(...)
FindBestCRSReturn ==
    /\ pc = "loop"
    /\ k > Len(crses)
    /\ outcome' = SelectBest(rmse)
    /\ pc' = IF IsErr(outcome') THEN "threw" ELSE "returned"
    /\ UNCHANGED <<params, point, imagePoints, mapPoints, lnglatPoints, crses, mode,
                   yAxisMode, defs, k, rmse, trace>>

\* the caller goes on to another findBestCRS call: the projection engine
\* keeps its definitions, everything local to the call is gone
FindBestCRSAgain ==
    /\ pc \in {"threw", "returned"}
    /\ pc' = "idle"
    /\ crses' = <<>>
    /\ k' = 0
    /\ rmse' = <<>>
    /\ outcome' = None
    /\ trace' = <<>>
    /\ UNCHANGED <<params, point, imagePoints, mapPoints, lnglatPoints, mode,
                   yAxisMode, defs>>

NextScorer ==
    \/ ComputeRMSECall
    \/ ComputeRMSESelfCall
    \/ ComputeTransformParamsCall
    \/ FindBestCRSCall
    \/ FindBestCRSIterate
    \/ FindBestCRSReturn
    \/ FindBestCRSAgain

SpecScorer == InitScorer /\ [][NextScorer]_vars

(***************************************************************************)
(* Properties                                                              *)
(***************************************************************************)
\* Math.abs(det) < 1e-15 for the determinant of the drawn params
DetBelowEps == AbsLtPow10(Det(params), DetEpsDigits)

\* C1 (as stated): for every params whose determinant A*E - B*D is not zero
\* and every point p, inverseAffine(params, forwardAffine(params, p)) returns
\* a point, and that point is p.
C1_RoundTripNonZeroDet ==
    (pc = "roundtrip" /\ ~IsZero(Det(params)))
        => (IsOk(outcome) /\ PointEq(outcome[2], point))

\* C1 (amended): for every params whose determinant is at least 1e-15 in
\* magnitude and every point p, inverseAffine(params, forwardAffine(params, p))
\* returns a point, and that point is p.
C1_RoundTrip ==
    (pc = "roundtrip" /\ ~DetBelowEps)
        => (IsOk(outcome) /\ PointEq(outcome[2], point))

\* a round trip through a sheared, translated matrix that gave the point back
C1_Witness ==
    /\ pc = "roundtrip"
    /\ IsOk(outcome)
    /\ ~IsZero(params[2]) /\ ~IsZero(params[4]) /\ ~IsZero(params[3])
    /\ point = P2(2, -1)
    /\ PointEq(outcome[2], point)

\* C2: inverseAffine throws the singular-transform error, and returns no
\* point, exactly when |A*E - B*D| < 1e-15; a determinant of zero (A = B = D =
\* E = 0 among them) always throws, whatever the point and C, F.
C2_SingularIffBelowEps ==
    (pc \in {"inverted", "roundtrip"})
        => /\ (outcome = Err("singular-transform")) <=> DetBelowEps
           /\ IsOk(outcome) <=> ~DetBelowEps
           /\ IsZero(Det(params)) => outcome = Err("singular-transform")

\* the zero matrix with a translation, inverted at a point off the origin
C2_Witness ==
    /\ pc = "inverted"
    /\ outcome = Err("singular-transform")
    /\ IsZero(params[1]) /\ IsZero(params[2]) /\ IsZero(params[4]) /\ IsZero(params[5])
    /\ ~IsZero(params[3])
    /\ point = P2(2, -1)

ParamsEq(p, q) == \A i \in 1..6 : NumEq(p[i], q[i])

\* sum over the control points of the squared distance between the map point
\* and the image point sent through p
Residual(p) == SumSqDiff(mapPoints, ForwardAll(p, imagePoints), Len(imagePoints))

\* the call returned params in similar or noshear mode
ConstrainedFitDone ==
    pc \in {"done", "scored"} /\ mode \in {"similar", "noshear"} /\ IsOk(outcome)

SameCandidate == computeTransformParams(imagePoints, mapPoints, mode, "same")
OppositeCandidate == computeTransformParams(imagePoints, mapPoints, mode, "opposite")

\* the result is the one of the two fits that 'auto' has to pick
PicksSmaller(same, opposite, resSame, resOpposite) ==
    /\ outcome[2] = IF Le(resSame, resOpposite) THEN same ELSE opposite
    /\ Le(Residual(outcome[2]), resSame)
    /\ Le(Residual(outcome[2]), resOpposite)

PicksAmong(same, opposite) ==
    /\ IsOk(same)
    /\ IsOk(opposite)
    /\ PicksSmaller(same[2], opposite[2], Residual(same[2]), Residual(opposite[2]))

\* C7: in similar and noshear mode with yAxisMode 'auto' the call returns the
\* 'same' candidate when its residual against the original points is at most
\* that of the 'opposite' candidate, and the 'opposite' candidate otherwise;
\* the returned params have the smaller of the two residuals.
C7_AutoPicksSmallerResidual ==
    (ConstrainedFitDone /\ yAxisMode = "auto")
        => PicksAmong(SameCandidate, OppositeCandidate)

TieResolvedToSame(same, opposite) ==
    /\ IsOk(same)
    /\ IsOk(opposite)
    /\ ~ParamsEq(same[2], opposite[2])
    /\ NumEq(Residual(same[2]), Residual(opposite[2]))
    /\ ~IsZero(Residual(same[2]))
    /\ outcome[2] = same[2]

\* an exact tie between two different candidates, resolved to the 'same' one
C7_Witness ==
    /\ ConstrainedFitDone /\ yAxisMode = "auto"
    /\ TieResolvedToSame(SameCandidate, OppositeCandidate)

\* the core fit of the mode on the image points with every y negated
NegatedY == Tab(Len(imagePoints), LAMBDA i : <<imagePoints[i][1], Neg(imagePoints[i][2])>>)
CoreOnNegatedY ==
    IF mode = "similar" THEN computeSimilarCore(NegatedY, mapPoints)
    ELSE computeNoShearCore(NegatedY, mapPoints)

\* C8: in similar and noshear mode with yAxisMode 'opposite' the result is the
\* core fit on the y-negated image points with B and E negated and A, C, D, F
\* kept; it sends an image point (x, y) where the core fit sends (x, -y).
C8_OppositeIsConvertedFlipFit ==
    (ConstrainedFitDone /\ yAxisMode = "opposite")
        => /\ IsOk(CoreOnNegatedY)
           /\ LET c == CoreOnNegatedY[2]
              IN  /\ outcome[2] = <<c[1], Neg(c[2]), c[3], c[4], Neg(c[5]), c[6]>>
                  /\ \A i \in 1..Len(imagePoints) :
                        PointEq(forwardAffine(outcome[2], imagePoints[i]),
                                forwardAffine(c, NegatedY[i]))
                  /\ \A x \in Coords, y \in Coords :
                        PointEq(forwardAffine(outcome[2], P2(x, y)),
                                forwardAffine(c, P2(x, -y)))

\* an 'opposite' fit with a rotation part, on image points off the x axis
C8_Witness ==
    /\ ConstrainedFitDone /\ yAxisMode = "opposite" /\ mode = "similar"
    /\ ~IsZero(outcome[2][2]) /\ ~IsZero(outcome[2][5])
    /\ \E i \in 1..Len(imagePoints) : ~IsZero(imagePoints[i][2])

\* C9: in affine mode the outcome (the params or the error) is the same for
\* yAxisMode 'same', 'opposite' and 'auto', and the call runs the 6-parameter
\* fit only: no y-flipped copy is made and no constrained fit is run.
C9_AffineIgnoresYAxisMode ==
    (pc \in {"done", "scored"} /\ mode = "affine")
        => /\ \A y \in YAxisModes :
                 outcome = computeTransformParams(imagePoints, mapPoints, "affine", y)
           /\ \A i \in 1..Len(trace) : trace[i] = "computeAffine6"

\* an affine fit that succeeded under a yAxisMode other than the default
C9_Witness ==
    /\ pc = "done" /\ mode = "affine" /\ yAxisMode = "opposite"
    /\ IsOk(outcome)
    /\ trace = <<"computeAffine6">>

\* three of the image points span the plane
NonCollinear(pts) ==
    \E a \in 1..Len(pts), b \in 1..Len(pts), c \in 1..Len(pts) :
        ~NumEq(Mul(Sub(pts[b][1], pts[a][1]), Sub(pts[c][2], pts[a][2])),
               Mul(Sub(pts[b][2], pts[a][2]), Sub(pts[c][1], pts[a][1])))

\* C10: in affine mode, when the image points number at least 3 and are not
\* collinear and the map points are exactly the images of a known P, the call
\* returns P and the RMSE between the map points and forwardAffine of the
\* result is 0.
C10_AffineExactness ==
    \A g \in Generators :
        ( /\ pc \in {"done", "scored"} /\ mode = "affine"
          /\ Len(imagePoints) >= 3 /\ NonCollinear(imagePoints)
          /\ mapPoints = ForwardAll(g, imagePoints) )
            => /\ IsOk(outcome) /\ ParamsEq(outcome[2], g)
               /\ pc = "scored" => rmse = <<<<"residual", Ok(Sqrt(Zero))>>>>

\* a sheared P recovered from three points and scored
C10_Witness ==
    /\ pc = "scored" /\ mode = "affine"
    /\ Len(imagePoints) >= 3 /\ NonCollinear(imagePoints)
    /\ \E g \in Generators :
          /\ ~IsZero(g[2]) /\ ~IsZero(g[4])
          /\ mapPoints = ForwardAll(g, imagePoints)
          /\ ParamsEq(outcome[2], g)
    /\ rmse = <<<<"residual", Ok(Sqrt(Zero))>>>>

\* the two sequences of the call differ in length
LengthsDiffer == Len(mapPoints) # Len(imagePoints)

\* C3 (as stated): computeRMSE, computeTransformParams and findBestCRS each
\* fail with the length-mismatch kind whenever their two point sequences have
\* different lengths, whatever the lengths, mode, yAxisMode and candidates.
C3_LengthMismatchAlways ==
    LengthsDiffer =>
        /\ pc \notin {"loop", "returned"}
        /\ pc \in {"measured", "done", "threw"} => outcome = Err("length-mismatch")

\* C3 (amended): with different lengths computeRMSE and findBestCRS fail with
\* length-mismatch; computeTransformParams fails with insufficient-points when
\* the image sequence has fewer than 2 points and with length-mismatch
\* otherwise.
C3_LengthMismatch ==
    LengthsDiffer =>
        /\ pc \notin {"loop", "returned"}
        /\ pc \in {"measured", "threw"} => outcome = Err("length-mismatch")
        /\ pc = "done" =>
              outcome = IF Len(imagePoints) < 2 THEN Err("insufficient-points")
                        ELSE Err("length-mismatch")

C3_Witness ==
    /\ pc = "done"
    /\ Len(imagePoints) = 1
    /\ Len(mapPoints) = 3
    /\ outcome = Err("insufficient-points")

\* the raw RMSE of a candidate: the geographic points projected into it
\* against forwardAffine of the params fitted for it on the local points
RawRMSE(crs) ==
    LET projected == ProjectAll(crs, lnglatPoints)
        fitted == computeTransformParams(imagePoints, projected, mode, yAxisMode)
    IN  IF IsErr(fitted) THEN fitted
        ELSE computeRMSE(projected, ForwardAll(fitted[2], imagePoints))

\* candidate i has a score no other candidate of the list undercuts
MinimalAt(i) ==
    \A j \in 1..Len(crses) : RootLe(RawRMSE(crses[i])[2], RawRMSE(crses[j])[2])

\* the position at which an identifier is first met in the list
FirstIndex(crs) ==
    CHOOSE i \in 1..Len(crses) : crses[i] = crs /\ \A j \in 1..(i - 1) : crses[j] # crs

TiedMinimum ==
    \E i, j \in 1..Len(crses) : crses[i] # crses[j] /\ MinimalAt(i) /\ MinimalAt(j)

\* C5 (as stated): when two or more candidates have exactly equal minimal
\* RMSE, findBestCRS returns the one of them met first in the list.
C5_TieReturnsFirst ==
    (pc = "returned" /\ TiedMinimum) =>
        \E i \in 1..Len(crses) :
            /\ outcome = Ok(crses[i])
            /\ MinimalAt(i)
            /\ \A j \in 1..Len(crses) : MinimalAt(j) => i <= j

\* C5 (amended): when two or more candidates have exactly equal minimal
\* RMSE, findBestCRS returns the one of them whose first occurrence in the
\* list comes last.
C5_TieReturnsLast ==
    (pc = "returned" /\ TiedMinimum) =>
        \E i \in 1..Len(crses) :
            /\ outcome = Ok(crses[i])
            /\ MinimalAt(i)
            /\ \A j \in 1..Len(crses) :
                  MinimalAt(j) => FirstIndex(crses[j]) <= FirstIndex(crses[i])

C5_Witness ==
    /\ pc = "returned"
    /\ Len(rmse) = 2
    /\ RootLe(rmse[1][2], rmse[2][2])
    /\ RootLe(rmse[2][2], rmse[1][2])
    /\ outcome = Ok(crses[2])

\* C6: a candidate whose fit, forward application or RMSE step fails makes
\* findBestCRS fail with that error; an identifier is returned only when
\* every candidate of the list was fitted and scored.
C6_CandidateFailurePropagates ==
    pc \in {"loop", "threw", "returned"} =>
        /\ \A i \in 1..Len(trace) :
              IsErr(trace[i][2]) => (pc = "threw" /\ outcome = trace[i][2])
        /\ pc = "returned" =>
              /\ Len(trace) = Len(crses)
              /\ \A i \in 1..Len(crses) : IsOk(RawRMSE(crses[i]))

C6_Witness ==
    /\ pc = "threw"
    /\ Len(crses) = 2
    /\ crses[1] # crses[2]
    /\ Len(trace) = 1
    /\ trace[1][2] = Err("singular-fit")
    /\ outcome = Err("singular-fit")

\* the generating params of inverted Y orientation: E = -A and B = D
FlippedGenerators ==
    {g \in Generators : NumEq(g[5], Neg(g[1])) /\ NumEq(g[2], g[4])}

Coincident(pts) == \A i \in 1..Len(pts) : PointEq(pts[i], pts[1])

\* the call was made in similar mode with 'auto' on the images of g
FlippedInput(g) ==
    /\ pc \in {"done", "scored"}
    /\ mode = "similar"
    /\ yAxisMode = "auto"
    /\ mapPoints = ForwardAll(g, imagePoints)

\* the call returned g, which has the flipped form
RecoversFlipped(g) ==
    /\ IsOk(outcome)
    /\ ParamsEq(outcome[2], g)
    /\ NumEq(outcome[2][5], Neg(outcome[2][1]))
    /\ NumEq(outcome[2][2], outcome[2][4])

\* C11 (as stated): for at least 2 image points, not all coincident, whose map
\* points are the images under a similarity of inverted Y orientation, similar
\* mode with 'auto' returns the generating params, of the form E = -A, B = D.
C11_FlipExactnessFromTwoPoints ==
    \A g \in FlippedGenerators :
        (FlippedInput(g) /\ Len(imagePoints) >= 2 /\ ~Coincident(imagePoints))
            => RecoversFlipped(g)

\* C11 (amended): the same for at least 3 image points that are not collinear
\* and whose centred sum of squares is not below 1e-15.
C11_FlipExactness ==
    \A g \in FlippedGenerators :
        ( /\ FlippedInput(g)
          /\ Len(imagePoints) >= 3
          /\ NonCollinear(imagePoints)
          /\ ~AbsLtPow10(BigC(imagePoints, Centroid(imagePoints), Len(imagePoints)),
                         BigCEpsDigits) )
            => RecoversFlipped(g)

\* a mirrored similarity with a rotation part recovered from three points
C11_Witness ==
    /\ Len(imagePoints) = 3
    /\ NonCollinear(imagePoints)
    /\ \E g \in FlippedGenerators :
          /\ ~IsZero(g[2])
          /\ FlippedInput(g)
          /\ RecoversFlipped(g)

\* what one step does to the projection engine's definitions
RegistrationStep ==
    /\ defs \subseteq defs'
    /\ defs' # defs =>
          /\ pc = "loop"
          /\ k \in 1..Len(crses)
          /\ crses[k] \notin defs
          /\ crses[k] \in Proj4List
          /\ defs' = defs \cup {crses[k]}
    /\ (pc = "loop" /\ Len(trace') > Len(trace)) =>
          /\ trace'[Len(trace')][1] \in defs'
          /\ trace'[Len(trace')][3] = (trace'[Len(trace')][1] \notin defs)

\* C12: over any sequence of findBestCRS calls an identifier that is already
\* defined is never defined again, a processed candidate that is not defined is
\* defined once, from the lookup table, before its points are projected, and
\* no definition is ever removed.
C12_LazyIdempotentRegistration == [][RegistrationStep]_vars

\* one identifier processed twice: registered the first time, not the second
C12_Witness ==
    /\ pc \in {"loop", "returned"}
    /\ Len(trace) = 2
    /\ trace[1][1] = trace[2][1]
    /\ trace[1][3]
    /\ ~trace[2][3]

\* the rmse object after the first i candidates of the list cs were scored
RECURSIVE RmseAfter(_, _)
RmseAfter(cs, i) ==
    IF i = 0 THEN <<>>
    ELSE SetKey(RmseAfter(cs, i - 1), cs[i], RawRMSE(cs[i])[2])

\* the candidate lists that are the running list in another order
Reorderings ==
    { [i \in 1..Len(crses) |-> crses[p[i]]] :
        p \in {q \in [1..Len(crses) -> 1..Len(crses)] :
                  \A i, j \in 1..Len(crses) : q[i] = q[j] => i = j} }

DistinctScores ==
    \A i, j \in 1..Len(crses) :
        i # j => ~(RootLe(RawRMSE(crses[i])[2], RawRMSE(crses[j])[2])
                   /\ RootLe(RawRMSE(crses[j])[2], RawRMSE(crses[i])[2]))

\* C13: when the candidates' scores are pairwise distinct, findBestCRS returns
\* the same identifier for every permutation of the candidate list.
C13_OrderIndependent ==
    (pc = "returned" /\ DistinctScores) =>
        \A cs \in Reorderings : SelectBest(RmseAfter(cs, Len(cs))) = outcome

\* two candidates of different scores, the better one listed last
C13_Witness ==
    /\ pc = "returned"
    /\ Len(crses) = 2
    /\ DistinctScores
    /\ outcome = Ok(crses[2])

\* C14: computeRMSE(P, P) is 0 for every non-empty P, computeRMSE(O, Q) equals
\* computeRMSE(Q, O) for non-empty sequences of equal length, and the value
\* returned is never negative.
C14_RMSEIdentities ==
    /\ (pc = "self-measured" /\ Len(imagePoints) > 0) => outcome = Ok(Sqrt(Zero))
    /\ (pc = "measured" /\ Len(mapPoints) > 0 /\ Len(mapPoints) = Len(imagePoints)) =>
          /\ IsOk(outcome)
          /\ IsOk(computeRMSE(imagePoints, mapPoints))
          /\ NumEq(outcome[2][2], computeRMSE(imagePoints, mapPoints)[2][2])
    /\ (pc \in {"measured", "self-measured"} /\ IsOk(outcome)) =>
          /\ outcome[2][1] = "sqrt"
          /\ Sign(outcome[2][2]) >= 0

\* four different points measured against themselves
C14_Witness ==
    /\ pc = "self-measured"
    /\ Len(imagePoints) = 4
    /\ ~PointEq(imagePoints[1], imagePoints[2])
    /\ outcome = Ok(Sqrt(Zero))

\* C15: computeTransformParams fails with insufficient-points whenever the
\* image sequence has fewer than 2 points, in every mode and yAxisMode and
\* before any fit is run, and never with that error for 2 points or more.
C15_InsufficientPoints ==
    pc = "done" =>
        /\ Len(imagePoints) < 2 => (outcome = Err("insufficient-points") /\ trace = <<>>)
        /\ Len(imagePoints) >= 2 => outcome # Err("insufficient-points")

\* one pair of points in a mode that would otherwise fit a similarity
C15_Witness ==
    /\ pc = "done"
    /\ mode = "similar"
    /\ yAxisMode = "opposite"
    /\ Len(imagePoints) = 1
    /\ Len(mapPoints) = 1
    /\ outcome = Err("insufficient-points")
    /\ trace = <<>>

\* the call was made in affine mode on exactly two pairs of points
TwoPointAffine ==
    /\ pc \in {"done", "scored"}
    /\ mode = "affine"
    /\ Len(imagePoints) = 2
    /\ Len(mapPoints) = 2

SimilarFitDone == pc \in {"done", "scored"} /\ mode = "similar" /\ IsOk(outcome)

\* [A, B, C, D, E, F] with E = A and B = -D, whose determinant is A^2 + D^2
NonFlippedForm(p) ==
    /\ NumEq(p[5], p[1])
    /\ NumEq(p[2], Neg(p[4]))
    /\ NumEq(Det(p), Add(Mul(p[1], p[1]), Mul(p[4], p[4])))
    /\ Sign(Det(p)) >= 0

\* [A, B, C, D, E, F] with E = -A and B = D
FlippedForm(p) ==
    /\ NumEq(p[5], Neg(p[1]))
    /\ NumEq(p[2], p[4])

\* the residual of the converted fit on the y-negated points is strictly
\* below the residual of the fit on the points as given
FlippedStrictlySmallerOf(noFlip, flip) ==
    /\ IsOk(noFlip)
    /\ IsOk(flip)
    /\ Lt(Residual(convertFlipParam(flip[2])), Residual(noFlip[2]))

FlippedStrictlySmaller ==
    FlippedStrictlySmallerOf(computeSimilarCore(imagePoints, mapPoints),
                             computeSimilarCore(NegatedY, mapPoints))

\* the flipped candidate is the one the call has to return
FlippedChosen ==
    \/ yAxisMode = "opposite"
    \/ yAxisMode = "auto" /\ FlippedStrictlySmaller

\* C18: in similar mode the non-flipped result ('same', or 'auto' choosing the
\* non-flipped candidate) has E = A and B = -D, so its determinant is the
\* squared scale A^2 + D^2 >= 0; the flipped result ('opposite', or 'auto' when
\* the flipped residual is strictly smaller) has E = -A and B = D; a negative
\* determinant arises through the flipped candidate only.
C18_SimilarForms ==
    SimilarFitDone =>
        /\ ~FlippedChosen => NonFlippedForm(outcome[2])
        /\ FlippedChosen => FlippedForm(outcome[2])
        /\ Sign(Det(outcome[2])) < 0 => FlippedChosen

\* 'auto' returning a reflection with a rotation part
C18_Witness ==
    /\ SimilarFitDone
    /\ yAxisMode = "auto"
    /\ FlippedStrictlySmaller
    /\ Sign(Det(outcome[2])) < 0
    /\ ~IsZero(outcome[2][2])
    /\ ~IsZero(outcome[2][1])

\* the step in which findBestCRS fails while processing the k-th candidate
FailsAtCandidate == pc = "loop" /\ k <= Len(crses) /\ pc' = "threw"

\* the step in which findBestCRS fails at its initial length check
FailsAtLengthCheck == pc = "idle" /\ pc' = "threw"

\* C19: when findBestCRS fails while processing the k-th candidate, the
\* registrations made for candidates 1..k persist (the k-th included when it
\* got as far as the projection) and no candidate after the k-th is registered
\* or projected; a failure at the initial length check leaves the engine's
\* definitions unchanged.
C19_FailureStep ==
    /\ (pc = "loop" /\ k <= Len(crses)) =>
          /\ defs \subseteq defs'
          /\ (defs' \ defs) \subseteq {crses[k]}
          /\ Len(trace) = k - 1
    /\ FailsAtCandidate =>
          /\ \A i \in 1..Len(trace') : trace'[i][1] = crses[i] /\ crses[i] \in defs'
          /\ Len(trace') <= k
          /\ k' = k
    /\ FailsAtLengthCheck =>
          /\ defs' = defs
          /\ trace' = <<>>
          /\ outcome' = Err("length-mismatch")

C19_PartialRegistration == [][C19_FailureStep]_vars

\* the first of two candidates was registered and projected, its fit failed,
\* and the second, a listed identifier, is still undefined
C19_Witness ==
    /\ pc = "threw"
    /\ Len(crses) = 2
    /\ k = 1
    /\ Len(trace) = 1
    /\ trace[1][3]
    /\ IsErr(trace[1][2])
    /\ crses[1] \in defs
    /\ crses[2] \in Proj4List
    /\ crses[2] \notin defs

\* the step taken after the loop over an empty candidate list
EmptyListStep == pc = "loop" /\ crses = <<>>

\* C20: findBestCRS with an empty candidate list and sequences of equal length
\* fails with an error instead of returning an identifier, and registers,
\* projects and fits nothing.
C20_EmptyListStep ==
    /\ (pc = "idle" /\ pc' = "loop" /\ crses' = <<>>) =>
          /\ Len(lnglatPoints) = Len(imagePoints)
          /\ defs' = defs /\ trace' = <<>> /\ rmse' = <<>>
    /\ EmptyListStep =>
          /\ pc' = "threw"
          /\ outcome' = Err("TypeError")
          /\ defs' = defs
          /\ trace' = <<>>
          /\ rmse' = <<>>

C20_EmptyCandidateList == [][C20_EmptyListStep]_vars

\* the failed call on three pairs of points and no candidate
C20_Witness ==
    /\ pc = "threw"
    /\ crses = <<>>
    /\ Len(lnglatPoints) = 3
    /\ Len(imagePoints) = 3
    /\ outcome = Err("TypeError")
    /\ trace = <<>>

\* every candidate processed so far has the score of a fit against the points
\* ps and the geographic points gs
ScoredAgainst(ps, gs, events) ==
    \A i \in 1..Len(events) :
        events[i][2] = ScoreCandidate(events[i][1], gs, ps, mode, yAxisMode)

\* C21: computeTransformParams leaves its imagePoints and mapPoints arguments
\* as they were in every mode and yAxisMode (the y flip is made on a copy), so
\* within one findBestCRS call every candidate is fitted and scored against
\* the same original points, however many candidates came before it.
C21_ArgumentsStep ==
    /\ (pc = "idle" /\ pc' = "done") =>
          /\ imagePoints' = imagePoints
          /\ mapPoints' = mapPoints
    /\ (pc = "loop" /\ k <= Len(crses)) =>
          /\ imagePoints' = imagePoints
          /\ lnglatPoints' = lnglatPoints
          /\ ScoredAgainst(imagePoints', lnglatPoints', trace')

C21_ArgumentsNotMutated == [][C21_ArgumentsStep]_vars

\* two different candidates scored in a mode that flips, on image points off
\* the x axis
C21_Witness ==
    /\ pc = "returned"
    /\ mode = "similar"
    /\ yAxisMode = "auto"
    /\ Len(trace) = 2
    /\ trace[1][1] # trace[2][1]
    /\ IsOk(trace[2][2])
    /\ \E i \in 1..Len(imagePoints) : ~IsZero(imagePoints[i][2])

====
